---- MODULE Spec2Model ----
(***************************************************************************)
(* Client stream manager of the DeepSearch feature: the useDeepSearch hook *)
(* (hooks/useDeepSearch.ts) and the SSE client it drives                   *)
(* (utils/sseClient.ts).  The server is not part of the sources; it is     *)
(* modelled from the protocol description as an environment that streams   *)
(* each item of a session that the client has not reported as processed.   *)
(***************************************************************************)
EXTENDS Integers, Sequences, FiniteSets, TLC

(* ------------------------------ bounds --------------------------------- *)
\* number of work items of a session
NumItems == 2
\* connection attempts (startDeepSearch invocations that reach a network step)
MaxConns == 3
\* cap on the length of the results list
MaxResults == 3
\* number of searches the user starts
MaxSearches == 2
\* a heartbeat progress value large enough for the backend-restart heuristic
BigProgress == 21
MaxCopies == 2
\* the heartbeat timers of one connection that can be pending under lost ids
MaxLeaked == 2

(* ------------------------- program constants --------------------------- *)
MAX_RECONNECT_ATTEMPTS == 5
\* onerror grants this many extra retries when the last activity is recent
RecentActivityBonus == 2
\* heartbeat branch: "data.progress < 5 && processedItemsRef.current.size > 20"
RestartProgressBelow == 5
RestartSizeAbove == 20

Items == 1..NumItems
ConnIds == 1..MaxConns
None == -1
\* `virtual_item_${i}_${Date.now()}`: a placeholder id, never an item id
VirtualItemId(i) == 0 - (i + 1)
\* target.trim() === ''
Targets == {"", " ", "acme"}
IsBlank(t) == t \in {"", " "}
\* useState(`session_${Date.now()}`) evaluated when the hook is mounted
InitialSessionId == 0

VARIABLES
  \* React state of useDeepSearch
  institutionA, isSearching, progress, totalItems, results, sessionId, error,
  \* refs of useDeepSearch
  processedItemsRef, isFallbackInProgressRef, eventSourceRef, cleanupFnRef,
  reconnectCountRef, institutionARef,
  \* every startDeepSearch invocation past its guards and the connection it creates
  conns,
  \* the fallbackToRegularRequest call in flight
  fallback,
  \* Date.now() as far as it feeds session ids: the number of searches started
  now,
  \* history: how the current search ended, and the onFallback call made by
  \* the last step (if any)
  outcome, onFallbackBy,
  \* the server's SearchSession of the investigation
  session,
  \* history: the connections still able to act that have called onFallback
  fellBack,
  \* environment: the streams whose server side has stopped sending for good
  silent,
  \* Result events sent by the server and not yet handled: copies per item id
  inFlight

vars == <<institutionA, isSearching, progress, totalItems, results, sessionId, error,
          processedItemsRef, isFallbackInProgressRef, eventSourceRef, cleanupFnRef,
          reconnectCountRef, institutionARef, conns, fallback, now,
          outcome, onFallbackBy, session, fellBack, silent, inFlight>>

NoCall == [c |-> 0, att |-> 0]
\* the three callbacks that heartbeatTimeoutId can hold: the one set by onopen,
\* the one set by a heartbeat message and the one that callback sets in turn
TimerKinds == {"first", "hb", "hb2"}
\* no pending timer under a lost id
NoLeaked == [k \in TimerKinds |-> 0]
\* the number of timers pending under lost ids
LeakedCount(cn) == cn.leaked["first"] + cn.leaked["hb"] + cn.leaked["hb2"]
NoFallback == [inflight |-> FALSE, sid |-> None, target |-> "", processed |-> {}]

\* a slot of conns that no startDeepSearch invocation has used yet
EmptyConn ==
  [phase |-> "none", isReconnect |-> FALSE, sid |-> None, searchSid |-> None,
   target |-> "", hint |-> {}, sent |-> {}, urlProgress |-> 0,
   es |-> "closed", handlers |-> FALSE, reconnectAttempts |-> 0,
   connectionTimeoutId |-> FALSE, heartbeatTimeoutId |-> "none", leaked |-> NoLeaked,
   reconnectTimeoutId |-> FALSE, activityCheckerId |-> FALSE]

\* a connection (or an abandoned invocation) that can never act again
GoneConn == [EmptyConn EXCEPT !.phase = "gone"]

\* the hook, its connections and the request in flight as one value
World ==
  [institutionA |-> institutionA, isSearching |-> isSearching, progress |-> progress,
   totalItems |-> totalItems, results |-> results, sessionId |-> sessionId,
   error |-> error, processedItemsRef |-> processedItemsRef,
   isFallbackInProgressRef |-> isFallbackInProgressRef,
   eventSourceRef |-> eventSourceRef, cleanupFnRef |-> cleanupFnRef,
   reconnectCountRef |-> reconnectCountRef, institutionARef |-> institutionARef,
   conns |-> conns, fallback |-> fallback, now |-> now,
   outcome |-> outcome, onFallbackBy |-> NoCall, inFlight |-> inFlight]

\* a closed EventSource whose timers are all cleared or fired is inert
Inert(cn) ==
  /\ cn.phase = "live"
  /\ cn.es = "closed"
  /\ ~cn.connectionTimeoutId /\ cn.heartbeatTimeoutId = "none" /\ cn.leaked = NoLeaked
  /\ ~cn.reconnectTimeoutId /\ ~cn.activityCheckerId

CommitClient(w) ==
  /\ institutionA' = w.institutionA
  /\ isSearching' = w.isSearching
  /\ progress' = w.progress
  /\ totalItems' = w.totalItems
  /\ results' = w.results
  /\ sessionId' = w.sessionId
  /\ error' = w.error
  /\ processedItemsRef' = w.processedItemsRef
  /\ isFallbackInProgressRef' = w.isFallbackInProgressRef
  /\ eventSourceRef' = w.eventSourceRef
  /\ cleanupFnRef' = w.cleanupFnRef
  /\ reconnectCountRef' = w.reconnectCountRef
  /\ institutionARef' = w.institutionARef
  /\ conns' = [c \in ConnIds |-> IF Inert(w.conns[c]) THEN GoneConn ELSE w.conns[c]]
  /\ fallback' = w.fallback
  /\ now' = w.now
  /\ outcome' = w.outcome
  /\ onFallbackBy' = w.onFallbackBy
  /\ silent' = silent
  /\ inFlight' = w.inFlight
  /\ fellBack' = {c \in fellBack \cup {w.onFallbackBy.c} :
                    c # 0 /\ w.conns[c].phase = "live" /\ ~Inert(w.conns[c])}

\* a step of the client: the server's session is not touched
Commit(w) == CommitClient(w) /\ session' = session

\* the first unused slot of conns, 0 when all are used
NextConn(w) ==
  IF \E c \in ConnIds : w.conns[c].phase = "none"
  THEN CHOOSE c \in ConnIds : /\ w.conns[c].phase = "none"
                              /\ \A d \in ConnIds : d < c => w.conns[d].phase # "none"
  ELSE 0

(* ----------------------- sseClient.ts: teardown ------------------------ *)
\* eventSource.close()
CloseEventSource(cs, c) ==
  IF c = 0 THEN cs ELSE [cs EXCEPT ![c].es = "closed"]

\* same parameters as cleanup; the activity checker interval is left running
cleanupKeepsInterval(cs, c) ==
  IF c = 0 THEN cs
  ELSE [cs EXCEPT ![c].connectionTimeoutId = FALSE,
                  ![c].heartbeatTimeoutId = "none",
                  ![c].reconnectTimeoutId = FALSE,
                  ![c].es = "closed"]

\* createSSEConnection.cleanup
cleanup(cs, c) ==
  IF c = 0 THEN cs
  ELSE [cs EXCEPT ![c].connectionTimeoutId = FALSE,
                  ![c].heartbeatTimeoutId = "none",
                  ![c].reconnectTimeoutId = FALSE,
                  ![c].activityCheckerId = FALSE,
                  ![c].es = "closed"]

\* "if (eventSourceRef.current) {close; null}  if (cleanupFnRef.current) {call; null}"
TearDownRefs(w) ==
  [w EXCEPT !.conns = cleanup(CloseEventSource(w.conns, w.eventSourceRef), w.cleanupFnRef),
            !.eventSourceRef = 0,
            !.cleanupFnRef = 0]

(* ------------------------- useDeepSearch hook --------------------------- *)
showErrorAndReset(w, errorMessage) ==
  TearDownRefs([w EXCEPT !.error = errorMessage, !.isSearching = FALSE,
                         !.outcome = "failed"])

\* closure values of the render in which handleSSEMessage was created: its
\* dependency list holds only stable setters, so it (and the startDeepSearch
\* it calls) keeps the state of the first render
FirstRender ==
  [institutionA |-> "", isSearching |-> FALSE, sessionId |-> InitialSessionId]

\* closure values of the latest render, used by calls made from the UI
LatestRender(w) ==
  [institutionA |-> w.institutionA, isSearching |-> w.isSearching,
   sessionId |-> w.sessionId]

\* an SSEMessage; None, 0, {} and "" stand for an absent field
Msg(type) ==
  [type |-> type, total |-> None, progress |-> None, result |-> 0,
   reconnect |-> FALSE, processedItems |-> {}, sessionId |-> None,
   institutionA |-> "", isNull |-> FALSE]

\* what JSON.parse makes of the frame "null": a value without properties
NullData == [Msg("") EXCEPT !.isNull = TRUE]

\* the onError callback that startDeepSearch hands to createSSEConnection
onError(w) == [w EXCEPT !.error = "sse_error"]

\* handleFallbackToRegularRequest, up to the fetch of fallbackToRegularRequest;
\* sid is the sessionId of the render whose startDeepSearch built onFallback
handleFallbackToRegularRequest(w, targetInstitution, sid) ==
  IF w.isFallbackInProgressRef THEN w
  ELSE [w EXCEPT !.isFallbackInProgressRef = TRUE,
                 !.fallback = [inflight |-> TRUE, sid |-> sid,
                               target |-> targetInstitution,
                               processed |-> w.processedItemsRef]]

\* the onFallback callback that startDeepSearch hands to createSSEConnection
onFallback(w, c) ==
  [handleFallbackToRegularRequest(w, w.conns[c].target, w.conns[c].sid)
     EXCEPT !.onFallbackBy = [c |-> c, att |-> w.conns[c].reconnectAttempts]]

\* handleSSEMessage, reconnect_warning branch with data.reconnect === true
ReconnectBranch(w, data) ==
  LET w1 == TearDownRefs([w EXCEPT !.reconnectCountRef = @ + 1])
      w2 == IF data.sessionId # None THEN [w1 EXCEPT !.sessionId = data.sessionId]
            ELSE w1
      n  == NextConn(w2)
      scheduled(x) ==
        [x EXCEPT !.conns[n] = [EmptyConn EXCEPT !.phase = "t0", !.isReconnect = TRUE]]
  IN IF data.institutionA # ""
       THEN scheduled([w2 EXCEPT !.institutionA = data.institutionA,
                                 !.institutionARef = data.institutionA])
     ELSE IF ~IsBlank(w2.institutionARef)
       THEN scheduled([w2 EXCEPT !.institutionA = w2.institutionARef])
     ELSE IF ~IsBlank(FirstRender.institutionA)
       THEN scheduled([w2 EXCEPT !.institutionARef = FirstRender.institutionA])
     ELSE w2

\* the progress the heartbeat branch leaves in the state, from the size of
\* processedItemsRef after padding and data.progress
ProgressShown(size, serverProgress) ==
  IF size # serverProgress /\ serverProgress < RestartProgressBelow
     /\ size > RestartSizeAbove
  THEN size + serverProgress
  ELSE serverProgress

\* handleSSEMessage, heartbeat branch
HeartbeatBranch(w, data) ==
  IF data.progress # None /\ data.total # None
  THEN LET w1 == [w EXCEPT !.progress = data.progress, !.totalItems = data.total]
       IN IF data.processedItems # {}
          THEN [w1 EXCEPT !.processedItemsRef = data.processedItems]
          ELSE LET currentSize == Cardinality(w1.processedItemsRef)
                   padded == IF currentSize < data.progress
                             THEN w1.processedItemsRef \cup
                                  {VirtualItemId(i) : i \in currentSize..(data.progress - 1)}
                             ELSE w1.processedItemsRef
                   size == Cardinality(padded)
               IN IF size # data.progress /\ ~(data.progress < RestartProgressBelow
                                                /\ size > RestartSizeAbove)
                     /\ size < data.progress
                  THEN [w1 EXCEPT !.processedItemsRef =
                                    {VirtualItemId(i) : i \in 0..(data.progress - 1)},
                                  !.progress = data.progress]
                  ELSE [w1 EXCEPT !.processedItemsRef = padded,
                                  !.progress = ProgressShown(size, data.progress)]
  ELSE w

\* same parameters as ResultBranch; a Result replaces what was shown before
ResultBranchKeepsLast(w, data) ==
  [w EXCEPT !.results = <<data.result>>, !.processedItemsRef = {data.result}]

\* handleSSEMessage, result branch
ResultBranch(w, data) ==
  [w EXCEPT !.results = Append(@, data.result),
            !.processedItemsRef = @ \cup {data.result}]

\* handleSSEMessage, complete branch
CompleteBranch(w) ==
  TearDownRefs([w EXCEPT !.isSearching = FALSE, !.reconnectCountRef = 0,
                         !.outcome = "complete"])

\* same parameters as handleSSEMessage; a frame that is not JSON ends the
\* search with an error
handleSSEMessageStrict(w, data) ==
  CASE data.type = "init" ->
         [w EXCEPT !.totalItems = IF data.total = None THEN 0 ELSE data.total]
    [] data.type = "batch_info" -> w
    [] data.type = "reconnect_warning" ->
         IF data.reconnect THEN ReconnectBranch(w, data) ELSE w
    [] data.type = "heartbeat" -> HeartbeatBranch(w, data)
    [] data.type = "result" /\ data.result # 0 -> ResultBranch(w, data)
    [] data.type = "complete" -> CompleteBranch(w)
    [] data.type = "error" -> showErrorAndReset(w, "server_error")
    [] data.type = "raw" -> showErrorAndReset(w, "server_error")
    [] OTHER -> w

handleSSEMessage(w, data) ==
  CASE data.type = "init" ->
         [w EXCEPT !.totalItems = IF data.total = None THEN 0 ELSE data.total]
    [] data.type = "batch_info" -> w
    [] data.type = "reconnect_warning" ->
         IF data.reconnect THEN ReconnectBranch(w, data) ELSE w
    [] data.type = "heartbeat" -> HeartbeatBranch(w, data)
    [] data.type = "result" /\ data.result # 0 -> ResultBranch(w, data)
    [] data.type = "complete" -> CompleteBranch(w)
    [] data.type = "error" -> showErrorAndReset(w, "server_error")
    [] OTHER -> w

\* same parameters as Abandon; the rejected invocation leaves the search flag set
AbandonSearching(w, c) ==
  IF w.conns[c].phase = "none" THEN [w EXCEPT !.isSearching = TRUE]
  ELSE [w EXCEPT !.conns[c] = GoneConn, !.isSearching = TRUE]

\* a startDeepSearch invocation that returns before any network step
Abandon(w, c) ==
  IF w.conns[c].phase = "none" THEN w ELSE [w EXCEPT !.conns[c] = GoneConn]

\* whether startDeepSearch keeps results, progress, total and processed
KeepState(isReconnect) == isReconnect

\* the processed_items of the register_session request: "if (isReconnect)
\* { processedArray = Array.from(processedItemsRef.current) ... }"
ResumeHint(processed, isReconnect) == IF isReconnect THEN processed ELSE {}

\* startDeepSearch up to its first await; c is the slot of conns that
\* follows the invocation, cl the closure values of the render that made it
startDeepSearch(w, c, isReconnect, cl) ==
  LET fromRef == isReconnect /\ ~IsBlank(w.institutionARef)
      fromState == ~fromRef /\ ~IsBlank(cl.institutionA)
      targetInstitution == IF fromRef THEN w.institutionARef ELSE cl.institutionA
      w1 == IF fromRef THEN [w EXCEPT !.institutionA = targetInstitution]
            ELSE [w EXCEPT !.institutionARef = cl.institutionA]
      w2 == IF KeepState(isReconnect) THEN w1
            ELSE [w1 EXCEPT !.error = "", !.results = <<>>, !.progress = 0,
                            !.totalItems = 0, !.isSearching = TRUE,
                            !.now = @ + 1, !.sessionId = w1.now + 1,
                            !.processedItemsRef = {}, !.reconnectCountRef = 0,
                            !.outcome = "running"]
  IN IF ~fromRef /\ ~fromState
       THEN Abandon([w EXCEPT !.error = "no_target"], c)
     ELSE IF cl.isSearching /\ ~isReconnect
       THEN Abandon(w1, c)
     ELSE [w2 EXCEPT !.conns[c] =
             [EmptyConn EXCEPT !.phase = IF isReconnect THEN "register" ELSE "health",
                               !.isReconnect = isReconnect,
                               !.sid = cl.sessionId,
                               !.searchSid = IF isReconnect THEN w.conns[c].searchSid
                                             ELSE cl.sessionId,
                               !.target = targetInstitution,
                               !.hint = ResumeHint(w2.processedItemsRef, isReconnect)]]

cancelSearch(w) ==
  [TearDownRefs(w) EXCEPT !.reconnectCountRef = 0, !.isSearching = FALSE,
                          !.outcome = "cancelled"]

(* --------------------- sseClient.ts: one connection -------------------- *)
\* "heartbeatTimeoutId = window.setTimeout(...)": a timer still pending under
\* the old id is no longer reachable by clearTimeout; every such timer stays
\* pending on its own, so leaked counts them per callback
ArmHeartbeatTimeout(cn, kind) ==
  [cn EXCEPT !.leaked = IF cn.heartbeatTimeoutId # "none"
                        THEN [@ EXCEPT ![cn.heartbeatTimeoutId] = @ + 1] ELSE @,
             !.heartbeatTimeoutId = kind]

\* what getApiBaseUrl() returns: the configured URL, localhost:5000 or the
\* page's origin, never the empty string
ApiBaseUrl == "http://localhost:5000"
\* the apiBaseUrl arguments a caller of createSSEConnection can pass
ApiBaseUrls == {"", ApiBaseUrl}

\* the parameter checks of createSSEConnection: "!institutionA ||
\* institutionA.trim() === ''" and "!apiBaseUrl"
Throws(target, apiBaseUrl) == IsBlank(target) \/ apiBaseUrl = ""

\* the slot of a createSSEConnection call that threw: nothing was created
ThrownConn == [EmptyConn EXCEPT !.phase = "thrown"]

\* createSSEConnection({institutionA: target, apiBaseUrl, progress: processedItemsRef
\* .current.size, ...}) in slot c: it throws before anything is created, or
\* creates the EventSource, attaches the handlers and arms the three timers
createSSEConnection(w, c, target, apiBaseUrl) ==
  IF Throws(target, apiBaseUrl)
  THEN [w EXCEPT !.conns[c] = ThrownConn]
  ELSE [w EXCEPT !.conns[c] = [@ EXCEPT !.phase = "live", !.es = "connecting",
                                        !.target = target,
                                        !.handlers = TRUE, !.reconnectAttempts = 0,
                                        !.connectionTimeoutId = TRUE,
                                        !.reconnectTimeoutId = TRUE,
                                        !.activityCheckerId = TRUE,
                                        !.urlProgress = Cardinality(w.processedItemsRef)]]

\* createSSEConnection.reconnect
reconnect(w, c) ==
  LET cs1 == [w.conns EXCEPT ![c].handlers = FALSE, ![c].es = "closed",
                             ![c].connectionTimeoutId = FALSE,
                             ![c].heartbeatTimeoutId = "none",
                             ![c].reconnectTimeoutId = FALSE]
      w1 == [w EXCEPT !.conns = cleanup(cs1, c)]
      n  == NextConn(w1)
      w2 == handleSSEMessage(w1, [Msg("reconnect_warning") EXCEPT
                                    !.reconnect = TRUE,
                                    !.sessionId = w.conns[c].sid,
                                    !.institutionA = w.conns[c].target])
  IN \* history: the scheduled startDeepSearch(true) belongs to the search of c
     IF n # 0 /\ w2.conns[n].phase = "t0"
     THEN [w2 EXCEPT !.conns[n].searchSid = w.conns[c].searchSid]
     ELSE w2

\* same parameter as effectiveMaxRetries; one more retry after recent activity
effectiveMaxRetriesOneMore(recent) ==
  IF recent THEN MAX_RECONNECT_ATTEMPTS + RecentActivityBonus + 1
  ELSE MAX_RECONNECT_ATTEMPTS

\* the threshold eventSource.onerror compares reconnectAttempts with
effectiveMaxRetries(recent) ==
  IF recent THEN MAX_RECONNECT_ATTEMPTS + RecentActivityBonus
  ELSE MAX_RECONNECT_ATTEMPTS

Live(c) == conns[c].phase = "live"
Listening(c) == Live(c) /\ conns[c].handlers /\ conns[c].es # "closed"

\* a startDeepSearch(true) can still be scheduled
SlotFree == NextConn(World) # 0

\* connectionTimeoutId fires
ConnectionTimeout(c) ==
  /\ Live(c) /\ conns[c].connectionTimeoutId
  /\ LET w1 == [World EXCEPT !.conns[c].connectionTimeoutId = FALSE,
                             !.conns[c].es = "closed"]
     IN Commit(onFallback(w1, c))

\* reconnectTimeoutId (RECONNECT_INTERVAL) fires
ProactiveReconnect(c) ==
  /\ Live(c) /\ conns[c].reconnectTimeoutId
  /\ SlotFree
  /\ LET w1 == handleSSEMessage(World, Msg("reconnect_warning"))
         w2 == [w1 EXCEPT !.conns[c].es = "closed",
                          !.conns[c].connectionTimeoutId = FALSE,
                          !.conns[c].heartbeatTimeoutId = "none",
                          !.conns[c].reconnectTimeoutId = FALSE]
     IN Commit(reconnect(w2, c))

\* same parameter as ActivityCheck; an activity checker that only ever warns
ActivityCheckWarnsOnly(c) ==
  /\ Live(c) /\ conns[c].activityCheckerId
  /\ Commit(handleSSEMessage(
              [World EXCEPT !.conns[c].reconnectAttempts =
                              IF @ < MAX_RECONNECT_ATTEMPTS THEN @ + 1 ELSE @],
              Msg("connection_warning")))

\* activityCheckerId fires with inactiveTime > HEARTBEAT_TIMEOUT
ActivityCheck(c) ==
  /\ Live(c) /\ conns[c].activityCheckerId
  /\ IF conns[c].reconnectAttempts < MAX_RECONNECT_ATTEMPTS
     THEN Commit(handleSSEMessage(
                   [World EXCEPT !.conns[c].reconnectAttempts = @ + 1],
                   Msg("connection_warning")))
     ELSE Commit(onFallback([World EXCEPT !.conns[c].activityCheckerId = FALSE,
                                          !.conns[c].es = "closed"], c))

\* eventSource.onopen
EsOpen(c) ==
  /\ Listening(c) /\ conns[c].es = "connecting"
  /\ conns[c].heartbeatTimeoutId = "none" \/ LeakedCount(conns[c]) < MaxLeaked
  /\ LET cn == ArmHeartbeatTimeout([conns[c] EXCEPT !.es = "open",
                                                    !.connectionTimeoutId = FALSE,
                                                    !.sent = {}], "first")
     IN Commit(handleSSEMessage(
                 [World EXCEPT !.conns[c] = [cn EXCEPT !.reconnectAttempts = 0]],
                 Msg("connect")))

\* eventSource.onmessage with the parsed message data; reading data.type of
\* null throws after the heartbeat timer is cleared, and the outer catch
\* reports it through onError
onmessage(w, c, data) ==
  LET cleared == [w.conns[c] EXCEPT !.heartbeatTimeoutId = "none"]
      cn == IF data.type = "heartbeat"
            THEN ArmHeartbeatTimeout([cleared EXCEPT !.reconnectAttempts = 0], "hb")
            ELSE cleared
  IN IF data.isNull THEN onError([w EXCEPT !.conns[c] = cleared])
     ELSE handleSSEMessage([w EXCEPT !.conns[c] = cn], data)

\* eventSource.onerror; recent: the last activity is less than 5 s old,
\* retry: the browser keeps the EventSource in CONNECTING
EsError(c, recent, retry) ==
  /\ Listening(c)
  /\ IF conns[c].reconnectAttempts < effectiveMaxRetries(recent)
     THEN Commit(handleSSEMessage(
                   [World EXCEPT !.conns[c].reconnectAttempts = @ + 1,
                                 !.conns[c].es = IF retry THEN "connecting"
                                                 ELSE "closed"],
                   Msg("connection_warning")))
     ELSE Commit(onFallback([World EXCEPT !.conns[c].connectionTimeoutId = FALSE,
                                          !.conns[c].heartbeatTimeoutId = "none",
                                          !.conns[c].es = "closed"], c))

\* the callbacks of the three timers kept in heartbeatTimeoutId
HeartbeatTimeoutCallback(w, c, kind) ==
  CASE kind = "first" -> onFallback([w EXCEPT !.conns[c].es = "closed"], c)
    [] kind = "hb" ->
         IF w.conns[c].reconnectAttempts < MAX_RECONNECT_ATTEMPTS
         THEN LET w1 == handleSSEMessage(
                          [w EXCEPT !.conns[c].reconnectAttempts = @ + 1],
                          Msg("connection_warning"))
              IN [w1 EXCEPT !.conns[c] = ArmHeartbeatTimeout(@, "hb2")]
         ELSE onFallback([w EXCEPT !.conns[c].es = "closed"], c)
    [] kind = "hb2" ->
         IF w.conns[c].reconnectAttempts >= MAX_RECONNECT_ATTEMPTS
         THEN onFallback([w EXCEPT !.conns[c].es = "closed"], c)
         ELSE w

\* the timer whose id is in heartbeatTimeoutId fires
HeartbeatTimeout(c) ==
  /\ Live(c) /\ conns[c].heartbeatTimeoutId # "none"
  /\ Commit(HeartbeatTimeoutCallback(
              [World EXCEPT !.conns[c].heartbeatTimeoutId = "none"],
              c, conns[c].heartbeatTimeoutId))

\* a timer whose id was overwritten in heartbeatTimeoutId fires
LeakedTimeout(c, kind) ==
  /\ Live(c) /\ conns[c].leaked[kind] > 0
  /\ Commit(HeartbeatTimeoutCallback(
              [World EXCEPT !.conns[c].leaked[kind] = @ - 1], c, kind))

(* ------------------ the server, as seen by one stream ------------------- *)
\* the items the server still owes the stream of connection c: those the
\* client did not register as processed and that this stream has not carried
Owed(c) == Items \ (conns[c].hint \cup conns[c].sent)

Streaming(c) == Listening(c) /\ conns[c].es = "open"

\* Heartbeat{progress,total}, with or without the list of processed ids
HeartbeatInputs ==
  {[progress |-> p, total |-> NumItems, ids |-> {}] : p \in 0..NumItems}
  \cup {[progress |-> BigProgress, total |-> BigProgress + NumItems, ids |-> {}]}
  \cup {[progress |-> Cardinality(S), total |-> NumItems, ids |-> S] :
          S \in (SUBSET Items) \ {{}}}

\* a count-only Heartbeat of a server that counts what this stream carried
ProgressHeartbeat(c) ==
  [progress |-> Cardinality(conns[c].sent), total |-> NumItems, ids |-> {}]

\* Heartbeat{progress,total} without the id list, any count up to the total
CountHeartbeats == {hb \in HeartbeatInputs : hb.ids = {} /\ hb.progress <= NumItems}

\* count-only Heartbeats of a session with more items than the model streams:
\* a count past the restart threshold, and the small counts of a server that
\* started counting again
LargeSessionHeartbeats ==
  {[progress |-> p, total |-> BigProgress + NumItems, ids |-> {}] :
     p \in (0..(RestartProgressBelow - 1)) \cup {BigProgress}}

\* message types that handleSSEMessage has no branch for, or ignores
InfoTypes == {"connect", "connection_warning", "raw", "batch_complete",
              "batch_info", "reconnect_warning"}

ServerInit(c) ==
  /\ Streaming(c)
  /\ Commit(onmessage(World, c, [Msg("init") EXCEPT !.total = NumItems]))

ServerResult(c, i) ==
  /\ Streaming(c)
  /\ i \in Owed(c)
  /\ Len(results) < MaxResults
  /\ Commit(onmessage([World EXCEPT !.conns[c].sent = @ \cup {i}], c,
                      [Msg("result") EXCEPT !.result = i]))

ServerHeartbeat(c, hb) ==
  /\ Streaming(c)
  /\ Commit(onmessage(World, c,
                      [Msg("heartbeat") EXCEPT !.progress = hb.progress,
                                               !.total = hb.total,
                                               !.processedItems = hb.ids]))

ServerComplete(c) ==
  /\ Streaming(c)
  /\ Owed(c) = {}
  /\ Commit(onmessage(World, c, Msg("complete")))

ServerError(c) ==
  /\ Streaming(c)
  /\ Commit(onmessage(World, c, Msg("error")))

ServerInfo(c, type) ==
  /\ Streaming(c)
  /\ Commit(onmessage(World, c, Msg(type)))

\* a frame whose data is the JSON text null
ServerNull(c) ==
  /\ Streaming(c)
  /\ Commit(onmessage(World, c, NullData))

(* ------------------- startDeepSearch: deferred steps -------------------- *)
\* the session id a register_session reply may carry besides the one sent
ServerAssignedId == 7

\* the setTimeout(..., 0) callback of the reconnect_warning branch
ReconnectTimer0(c) ==
  /\ conns[c].phase = "t0"
  /\ IF IsBlank(institutionARef)
     THEN Commit([World EXCEPT !.conns[c] = GoneConn])
     ELSE Commit([World EXCEPT !.institutionA = institutionARef,
                               !.conns[c].phase = "t100"])

\* the setTimeout(..., 100) callback: startDeepSearch(true)
ReconnectTimer100(c) ==
  /\ conns[c].phase = "t100"
  /\ Commit(startDeepSearch(World, c, TRUE, FirstRender))

\* the register_session POST of a reconnect answers 2xx; rsid is its session_id
RegisterOk(c, rsid) ==
  /\ conns[c].phase = "register"
  /\ LET w1 == [World EXCEPT !.conns[c].phase = "health"]
     IN IF rsid # None /\ rsid # conns[c].sid
        THEN Commit([w1 EXCEPT !.sessionId = rsid])
        ELSE Commit(w1)

\* same parameter as RegisterFail; the failed POST ends the invocation
RegisterFailAborts(c) ==
  /\ conns[c].phase = "register"
  /\ Commit([World EXCEPT !.conns[c] = GoneConn])

\* the register_session POST fails: the server learns no processed ids
RegisterFail(c) ==
  /\ conns[c].phase = "register"
  /\ Commit([World EXCEPT !.conns[c].phase = "health", !.conns[c].hint = {}])

\* the /api/health check answers 2xx: the target is checked again, the
\* connection is created and stored in the three refs; a throw of
\* createSSEConnection ends in the same catch as a failed health check
HealthOk(c) ==
  /\ conns[c].phase = "health"
  /\ IF IsBlank(conns[c].target)
     THEN Commit([World EXCEPT !.error = "no_target_for_sse", !.isSearching = FALSE,
                               !.outcome = "failed", !.conns[c] = GoneConn])
     ELSE LET w1 == createSSEConnection(World, c, conns[c].target, ApiBaseUrl)
          IN IF w1.conns[c] = ThrownConn
             THEN Commit([World EXCEPT !.error = "create_failed",
                                       !.isSearching = FALSE,
                                       !.outcome = "failed", !.conns[c] = GoneConn])
             ELSE Commit([w1 EXCEPT !.eventSourceRef = c, !.cleanupFnRef = c])

\* a call of createSSEConnection with an empty target or API base URL; the
\* hook never makes one (it checks the target first and getApiBaseUrl is
\* never empty), any other caller of the exported function can
RejectedCreate(target, apiBaseUrl) ==
  /\ IsBlank(target) \/ apiBaseUrl = ""
  /\ SlotFree
  /\ Commit(createSSEConnection(World, NextConn(World), target, apiBaseUrl))

\* the /api/health check fails
HealthFail(c) ==
  /\ conns[c].phase = "health"
  /\ Commit([World EXCEPT !.error = "create_failed", !.isSearching = FALSE,
                          !.outcome = "failed", !.conns[c] = GoneConn])

(* --------------------------- fallback request --------------------------- *)
RECURSIVE SetToSeq(_)
\* the results array of a reply, in item order
SetToSeq(S) ==
  IF S = {} THEN <<>>
  ELSE LET m == CHOOSE x \in S : \A y \in S : x <= y
       IN <<m>> \o SetToSeq(S \ {m})

\* the onSuccess callback of handleFallbackToRegularRequest
FallbackOnSuccess(w, newResults, processed, total) ==
  [w EXCEPT !.results = @ \o newResults,
            !.progress = processed,
            !.totalItems = total,
            !.processedItemsRef = @ \cup {newResults[k] : k \in 1..Len(newResults)},
            !.isSearching = FALSE,
            !.isFallbackInProgressRef = FALSE,
            !.outcome = "polled"]

\* the onError callback of handleFallbackToRegularRequest
FallbackOnError(w) ==
  [showErrorAndReset(w, "fallback_failed") EXCEPT !.isFallbackInProgressRef = FALSE]

\* "data.processed && data.total": a count that is absent (None) or 0 is falsy
Truthy(n) == n # None /\ n # 0

\* fallbackToRegularRequest after a 2xx reply {results, processed, total};
\* a count the reply does not carry is None and reaches onSuccess as undefined
FallbackReply(rs, p, t) ==
  /\ fallback.inflight
  /\ rs \subseteq Items \ fallback.processed
  /\ Len(results) + Cardinality(rs) <= MaxResults
  /\ LET w1 == [World EXCEPT !.fallback = NoFallback]
     IN IF rs # {} THEN Commit(FallbackOnSuccess(w1, SetToSeq(rs), p, t))
        ELSE IF Truthy(p) /\ Truthy(t) THEN Commit(FallbackOnSuccess(w1, <<>>, p, t))
        ELSE Commit(w1)

\* fallbackToRegularRequest after a non-2xx reply, an abort or a network error
FallbackFail ==
  /\ fallback.inflight
  /\ Commit(FallbackOnError([World EXCEPT !.fallback = NoFallback]))

(* --------------------------------- user --------------------------------- *)
\* setInstitutionAWithRef; the input is disabled while isSearching
UserSetInstitutionA(t) ==
  /\ ~isSearching
  /\ t # institutionA
  /\ Commit([World EXCEPT !.institutionA = t, !.institutionARef = t])

\* startDeepSearch() from the button of components/DeepSearch.tsx, which is
\* never disabled and calls cancelSearch instead while isSearching (the
\* button of components/DeepSearch/index.tsx is disabled on a blank target)
UserStart ==
  /\ ~isSearching
  /\ now < MaxSearches
  /\ SlotFree
  /\ Commit(startDeepSearch(World, NextConn(World), FALSE, LatestRender(World)))

\* cancelSearch() from the button, shown while isSearching
UserCancel ==
  /\ isSearching
  /\ Commit(cancelSearch(World))

(* ----------------------------- specification ---------------------------- *)
\* the stream of connection c delivers nothing from now on: no event, no
\* error, no close
GoSilent(c) ==
  /\ Streaming(c)
  /\ c \notin silent
  /\ silent' = silent \cup {c}
  /\ UNCHANGED <<institutionA, isSearching, progress, totalItems, results, sessionId,
                 error, processedItemsRef, isFallbackInProgressRef, eventSourceRef,
                 cleanupFnRef, reconnectCountRef, institutionARef, conns, fallback,
                 now, outcome, onFallbackBy, session, fellBack, inFlight>>

\* the server sends a Result event for item i on whichever connection it has;
\* a copy can be sent again on the connection that replaces it
EmitResult(i) ==
  /\ outcome = "running"
  /\ inFlight[i] < MaxCopies
  /\ Len(results) < MaxResults
  /\ Commit([World EXCEPT !.inFlight[i] = @ + 1])

\* a Result event in flight arrives, in any order, at the onmessage handler of
\* an open connection
DeliverResult(c, i) ==
  /\ Streaming(c)
  /\ inFlight[i] > 0
  /\ Commit(onmessage([World EXCEPT !.inFlight[i] = @ - 1], c,
                      [Msg("result") EXCEPT !.result = i]))

(* ------------- server: Session Registry and Batch Dispatcher ------------ *)
\* The server is not part of the sources; the SearchSession, its registry, its
\* dispatcher and the queue it hands to Stream Transport are modelled from the
\* design description.
\* "configurable width, e.g., 3-10 concurrent Lookup Worker calls"
PoolWidth == 3
MaxResumes == 2

\* relationship types a lookup that succeeded can return
LookupOutcomes == {"Direct", "NoEvidenceFound"}
RelationshipTypes == LookupOutcomes \cup {"Unknown"}
TerminalStatus == {"Completed", "Cancelled", "Failed"}

\* the Complete event in the queue of Stream Transport; a Result event is the
\* id of its item
CompleteEvent == 0

\* no session created yet: GetSession answers NotFound. queue holds the events
\* handed to Stream Transport and not yet delivered, completes counts the
\* Complete events queued so far
NoSession ==
  [status |-> "NotFound", completed |-> {}, results |-> [i \in Items |-> "none"],
   inflight |-> {}, lastActivityAt |-> 0, queue |-> <<>>, completes |-> 0]

\* "As each result lands, it is written to completed/results"; "When completed
\* == items, status becomes Completed"
Write(s, i, rel) ==
  LET done == s.completed \cup {i}
  IN [s EXCEPT !.completed = done,
               !.results[i] = rel,
               !.status = IF done = Items THEN "Completed" ELSE @]

\* same parameters as Hand; the Complete event is queued behind the last but
\* one result
HandEarly(s, i) ==
  LET q == Append(s.queue, i)
  IN IF Cardinality(s.completed) >= NumItems - 1
     THEN [s EXCEPT !.queue = Append(q, CompleteEvent), !.completes = @ + 1]
     ELSE [s EXCEPT !.queue = q]

\* the result written for item i is "handed to Stream Transport as a Result
\* event"; "When completed == items ... a single Complete event is queued"
Hand(s, i) ==
  LET q == Append(s.queue, i)
  IN IF s.completed = Items
     THEN [s EXCEPT !.queue = Append(q, CompleteEvent), !.completes = @ + 1]
     ELSE [s EXCEPT !.queue = q]

\* a result of the worker pool lands
Land(s, i, rel) == Hand(Write(s, i, rel), i)

\* the Lookup Worker call for item i is over
Return(s, i) == [s EXCEPT !.inflight = @ \ {i}]

\* CreateSession(target, items): fresh state with status = Pending
CreateSession ==
  /\ session.status = "NotFound"
  /\ session' = [NoSession EXCEPT !.status = "Pending"]
  /\ UNCHANGED <<institutionA, isSearching, progress, totalItems, results, sessionId,
                 error, processedItemsRef, isFallbackInProgressRef, eventSourceRef,
                 cleanupFnRef, reconnectCountRef, institutionARef, conns, fallback,
                 now, outcome, onFallbackBy, fellBack, silent, inFlight>>

\* a step of the server that changes the session only
SessionStep(s) ==
  /\ session' = s
  /\ UNCHANGED <<institutionA, isSearching, progress, totalItems, results, sessionId,
                 error, processedItemsRef, isFallbackInProgressRef, eventSourceRef,
                 cleanupFnRef, reconnectCountRef, institutionARef, conns, fallback,
                 now, outcome, onFallbackBy, fellBack, silent, inFlight>>

\* the dispatcher takes the session: Pending -> Running
Enter(s) == IF s.status = "Pending" THEN [s EXCEPT !.status = "Running"] ELSE s

DispatcherStart ==
  /\ session.status = "Pending"
  /\ SessionStep(Enter(session))

\* "On entering Running, items not in completed are submitted to a
\* bounded-concurrency worker pool"
Submit(i) ==
  /\ session.status = "Running"
  /\ i \notin session.completed \cup session.inflight
  /\ Cardinality(session.inflight) < PoolWidth
  /\ SessionStep([session EXCEPT !.inflight = @ \cup {i}])

\* same parameters as LookupFailed; the failed lookup fails the session
LookupFailedEscalates(s, i) == [s EXCEPT !.status = "Failed"]

\* what the dispatcher does with a Lookup Worker call that timed out or
\* failed: a synthesized WorkResult{relationship_type = Unknown}
LookupFailed(s, i) == Land(s, i, "Unknown")

\* a Lookup Worker call returns; a call that outlives the session's end is
\* not aborted and its result is dropped
WorkerDone(i, rel) ==
  /\ i \in session.inflight
  /\ SessionStep(IF session.status = "Running" THEN Land(Return(session, i), i, rel)
                 ELSE Return(session, i))

\* a Lookup Worker call times out or returns an error
WorkerFailed(i) ==
  /\ i \in session.inflight
  /\ SessionStep(IF session.status = "Running" THEN LookupFailed(Return(session, i), i)
                 ELSE Return(session, i))

\* Poll: "server computes items - processedIds"
ToRun(processedIds) == Items \ processedIds

\* the results of one poll are written: rel for a lookup that succeeded,
\* Unknown for one in fails
RECURSIVE WriteAll(_, _, _, _)
WriteAll(s, done, fails, rel) ==
  IF done = {} THEN s
  ELSE LET i == CHOOSE j \in done : TRUE
       IN WriteAll(Write(s, i, IF i \in fails THEN "Unknown" ELSE rel),
                   done \ {i}, fails, rel)

\* RegisterResume(sessionId, target, processedHint): "if session exists,
\* updates lastActivityAt and returns it"; NotFound changes nothing
RegisterResume(processedHint) ==
  /\ session.status # "NotFound"
  /\ session.lastActivityAt < MaxResumes
  /\ SessionStep([session EXCEPT !.lastActivityAt = @ + 1])

\* Poll(target, sessionId, processedIds): the server "computes items -
\* processedIds, runs them (reusing the Batch Dispatcher logic, synchronously
\* or in one burst), and returns whatever completed within the request's own
\* timeout window"; done is what completed within the window, fails the part
\* of it whose lookup failed. The results go to the caller in the reply, not
\* to Stream Transport
Poll(processedIds, done, fails, rel) ==
  /\ session.status # "NotFound"
  /\ session.lastActivityAt < MaxResumes
  /\ done \subseteq ToRun(processedIds)
  /\ fails \subseteq done
  /\ SessionStep([WriteAll(Enter(session), done, fails, rel)
                    EXCEPT !.lastActivityAt = @ + 1])

\* the caller cancels the session
CancelSession ==
  /\ session.status \in {"Pending", "Running"}
  /\ SessionStep([session EXCEPT !.status = "Cancelled"])

\* an error of the dispatcher itself (not of one lookup) ends the session
SessionFailed ==
  /\ session.status = "Running"
  /\ SessionStep([session EXCEPT !.status = "Failed"])

\* the message Stream Transport sends for a queued event
EventData(e) ==
  IF e = CompleteEvent THEN Msg("complete") ELSE [Msg("result") EXCEPT !.result = e]

\* Stream Transport delivers the oldest queued event on the open stream of
\* connection c: "events within one connection are delivered in emission order"
StreamDeliver(c) ==
  /\ Streaming(c)
  /\ session.queue # <<>>
  /\ CommitClient(onmessage(World, c, EventData(Head(session.queue))))
  /\ session' = [session EXCEPT !.queue = Tail(@)]

\* Connect: the request of a stream creates the session
ConnectCreatesSession ==
  /\ \E c \in ConnIds : Listening(c)
  /\ CreateSession

Init ==
  /\ institutionA = ""
  /\ isSearching = FALSE
  /\ progress = 0
  /\ totalItems = 0
  /\ results = <<>>
  /\ sessionId = InitialSessionId
  /\ error = ""
  /\ processedItemsRef = {}
  /\ isFallbackInProgressRef = FALSE
  /\ eventSourceRef = 0
  /\ cleanupFnRef = 0
  /\ reconnectCountRef = 0
  /\ institutionARef = ""
  /\ conns = [c \in ConnIds |-> EmptyConn]
  /\ fallback = NoFallback
  /\ now = 0
  /\ outcome = "idle"
  /\ onFallbackBy = NoCall
  /\ session = NoSession
  /\ fellBack = {}
  /\ silent = {}
  /\ inFlight = [i \in Items |-> 0]

\* one search: the user, the deferred steps of startDeepSearch, the planned
\* reconnect and the server's stream, with failing health checks and
\* registrations but no transport failure
Next ==
  \/ \E t \in Targets : UserSetInstitutionA(t)
  \/ now = 0 /\ UserStart
  \/ UserCancel
  \/ \E c \in ConnIds : ReconnectTimer0(c)
  \/ \E c \in ConnIds : ReconnectTimer100(c)
  \/ \E c \in ConnIds : \E rsid \in {None, conns[c].sid, ServerAssignedId} : RegisterOk(c, rsid)
  \/ \E c \in ConnIds : RegisterFail(c)
  \/ \E c \in ConnIds : HealthOk(c)
  \/ \E c \in ConnIds : HealthFail(c)
  \/ \E c \in ConnIds : EsOpen(c)
  \/ \E c \in ConnIds : ProactiveReconnect(c)
  \/ \E c \in ConnIds : ServerInit(c)
  \/ \E c \in ConnIds : \E i \in Items : ServerResult(c, i)
  \/ \E c \in ConnIds : \E hb \in CountHeartbeats : ServerHeartbeat(c, hb)
  \/ \E c \in ConnIds : ServerComplete(c)
  \/ \E c \in ConnIds : ServerError(c)
  \/ \E c \in ConnIds : \E type \in InfoTypes : ServerInfo(c, type)
  \/ \E c \in ConnIds : ServerNull(c)

Spec == Init /\ [][Next]_vars

\* one search over a stream that is resumed by planned reconnects, every
\* request of which succeeds
NextResume ==
  \/ UserSetInstitutionA("acme")
  \/ now = 0 /\ UserStart
  \/ \E c \in ConnIds : ReconnectTimer0(c)
  \/ \E c \in ConnIds : ReconnectTimer100(c)
  \/ \E c \in ConnIds : \E rsid \in {None, conns[c].sid} : RegisterOk(c, rsid)
  \/ \E c \in ConnIds : HealthOk(c)
  \/ \E c \in ConnIds : EsOpen(c)
  \/ \E c \in ConnIds : ProactiveReconnect(c)
  \/ \E c \in ConnIds : ServerInit(c)
  \/ \E c \in ConnIds : \E i \in Items : ServerResult(c, i)
  \/ \E c \in ConnIds : \E hb \in CountHeartbeats : ServerHeartbeat(c, hb)
  \/ \E c \in ConnIds : ServerComplete(c)

SpecResume == Init /\ [][NextResume]_vars

\* one search whose stream is force-closed: the transport error of an open
\* stream, after which the browser reopens it with the URL it was created with
NextForceClose ==
  \/ UserSetInstitutionA("acme")
  \/ now = 0 /\ UserStart
  \/ \E c \in ConnIds : HealthOk(c)
  \/ \E c \in ConnIds : EsOpen(c)
  \/ \E c \in ConnIds : \E i \in Items : ServerResult(c, i)
  \/ \E c \in ConnIds : ServerHeartbeat(c, ProgressHeartbeat(c))
  \/ \E c \in ConnIds : ServerComplete(c)
  \/ \E c \in ConnIds : \E recent, retry \in BOOLEAN : EsError(c, recent, retry)

SpecForceClose == Init /\ [][NextForceClose]_vars

\* the same, with registrations and health checks that may fail
NextPlanned ==
  \/ NextResume
  \/ \E c \in ConnIds : RegisterFail(c)
  \/ \E c \in ConnIds : HealthFail(c)

SpecPlanned == Init /\ [][NextPlanned]_vars

\* successive searches of one hook instance, each over a stream with planned
\* reconnects
NextSearches ==
  \/ UserSetInstitutionA("acme")
  \/ UserStart
  \/ UserCancel
  \/ \E c \in ConnIds : ReconnectTimer0(c)
  \/ \E c \in ConnIds : ReconnectTimer100(c)
  \/ \E c \in ConnIds : RegisterOk(c, None)
  \/ \E c \in ConnIds : HealthOk(c)
  \/ \E c \in ConnIds : EsOpen(c)
  \/ \E c \in ConnIds : ProactiveReconnect(c)
  \/ \E c \in ConnIds : \E i \in Items : ServerResult(c, i)
  \/ \E c \in ConnIds : ServerComplete(c)

SpecSearches == Init /\ [][NextSearches]_vars

\* one search over one stream and every kind of heartbeat
NextHeartbeat ==
  \/ UserSetInstitutionA("acme")
  \/ now = 0 /\ UserStart
  \/ \E c \in ConnIds : HealthOk(c)
  \/ \E c \in ConnIds : EsOpen(c)
  \/ \E c \in ConnIds : ServerInit(c)
  \/ \E c \in ConnIds : \E i \in Items : ServerResult(c, i)
  \/ \E c \in ConnIds : \E hb \in HeartbeatInputs : ServerHeartbeat(c, hb)
  \/ \E c \in ConnIds : ServerComplete(c)

SpecHeartbeat == Init /\ [][NextHeartbeat]_vars

\* the first part of one search over one stream of a large session
NextLargeSession ==
  \/ UserSetInstitutionA("acme")
  \/ now = 0 /\ UserStart
  \/ \E c \in ConnIds : HealthOk(c)
  \/ \E c \in ConnIds : EsOpen(c)
  \/ \E c \in ConnIds : \E i \in Items : ServerResult(c, i)
  \/ \E c \in ConnIds : \E hb \in LargeSessionHeartbeats : ServerHeartbeat(c, hb)

SpecLargeSession == Init /\ [][NextLargeSession]_vars

\* the counts a reply can carry: none, or a number up to the size of the list
ReplyCounts == {None} \cup (0..NumItems)

\* the replies of the fallback request: a 2xx reply with any results not yet
\* processed and any counts, each present or not, or a failure
FallbackStep ==
  \/ \E rs \in SUBSET Items : \E p, t \in ReplyCounts : FallbackReply(rs, p, t)
  \/ FallbackFail

\* one search over one stream whose transport fails: errors, timers and the
\* fallback request
NextTransport ==
  \/ UserSetInstitutionA("acme")
  \/ now = 0 /\ UserStart
  \/ \E c \in ConnIds : HealthOk(c)
  \/ \E c \in ConnIds : EsOpen(c)
  \/ \E c \in ConnIds : ConnectionTimeout(c)
  \/ \E c \in ConnIds : ActivityCheck(c)
  \/ \E c \in ConnIds : \E recent, retry \in BOOLEAN : EsError(c, recent, retry)
  \/ \E c \in ConnIds : HeartbeatTimeout(c)
  \/ \E c \in ConnIds : \E kind \in TimerKinds : LeakedTimeout(c, kind)
  \/ \E c \in ConnIds : \E i \in Items : ServerResult(c, i)
  \/ \E c \in ConnIds : ServerHeartbeat(c, ProgressHeartbeat(c))
  \/ \E c \in ConnIds : ServerComplete(c)
  \/ \E c \in ConnIds : ServerError(c)
  \/ FallbackStep

SpecTransport == Init /\ [][NextTransport]_vars

\* one search in which the stream stays silent after opening, the fallback
\* request is sent and the planned reconnect comes due
NextFallback ==
  \/ UserSetInstitutionA("acme")
  \/ now = 0 /\ UserStart
  \/ \E c \in ConnIds : ReconnectTimer0(c)
  \/ \E c \in ConnIds : ReconnectTimer100(c)
  \/ \E c \in ConnIds : RegisterOk(c, None)
  \/ \E c \in ConnIds : HealthOk(c)
  \/ \E c \in ConnIds : EsOpen(c)
  \/ \E c \in ConnIds : ProactiveReconnect(c)
  \/ \E c \in ConnIds : HeartbeatTimeout(c)
  \/ \E c \in ConnIds : \E i \in Items : ServerResult(c, i)
  \/ \E c \in ConnIds : ServerComplete(c)
  \/ FallbackStep

SpecFallback == Init /\ [][NextFallback]_vars

\* one search whose streams can fall silent at any moment, with the timers of
\* every connection and the planned reconnect; the server gets as far as the
\* first item's Result before a stream falls silent
NextSilent ==
  \/ UserSetInstitutionA("acme")
  \/ now = 0 /\ UserStart
  \/ \E c \in ConnIds : ReconnectTimer0(c)
  \/ \E c \in ConnIds : ReconnectTimer100(c)
  \/ \E c \in ConnIds : RegisterOk(c, None)
  \/ \E c \in ConnIds : HealthOk(c)
  \/ \E c \in ConnIds : EsOpen(c)
  \/ \E c \in ConnIds \ silent : ServerResult(c, 1)
  \/ \E c \in ConnIds \ silent : ServerHeartbeat(c, ProgressHeartbeat(c))
  \/ \E c \in ConnIds : GoSilent(c)
  \/ \E c \in ConnIds : HeartbeatTimeout(c)
  \/ \E c \in ConnIds : ActivityCheck(c)
  \/ \E c \in ConnIds : ProactiveReconnect(c)

SpecSilent == Init /\ [][NextSilent]_vars

\* timers that are set fire: setTimeout and setInterval callbacks are run by
\* the event loop
TimerFires(c) == HeartbeatTimeout(c) \/ ActivityCheck(c) \/ ProactiveReconnect(c)

TimersFire == \A c \in ConnIds : WF_vars(TimerFires(c))

SpecSilentFair == SpecSilent /\ TimersFire

\* one search over one stream that carries informational messages between
\* its Init, Result and Heartbeat events
NextInfo ==
  \/ UserSetInstitutionA("acme")
  \/ now = 0 /\ UserStart
  \/ \E c \in ConnIds : HealthOk(c)
  \/ \E c \in ConnIds : EsOpen(c)
  \/ \E c \in ConnIds : ServerInit(c)
  \/ \E c \in ConnIds : \E i \in Items : ServerResult(c, i)
  \/ \E c \in ConnIds : \E hb \in CountHeartbeats : ServerHeartbeat(c, hb)
  \/ \E c \in ConnIds : \E type \in InfoTypes : ServerInfo(c, type)
  \/ \E c \in ConnIds : ServerNull(c)

SpecInfo == Init /\ [][NextInfo]_vars

\* one search started, cancelled and reconnected with any target in the input,
\* the empty and the whitespace-only one included; no server event
NextTargets ==
  \/ \E t \in Targets : UserSetInstitutionA(t)
  \/ now = 0 /\ UserStart
  \/ UserCancel
  \/ \E c \in ConnIds : ReconnectTimer0(c)
  \/ \E c \in ConnIds : ReconnectTimer100(c)
  \/ \E c \in ConnIds : RegisterOk(c, None)
  \/ \E c \in ConnIds : HealthOk(c)
  \/ \E c \in ConnIds : EsOpen(c)
  \/ \E c \in ConnIds : ProactiveReconnect(c)
  \/ \E t \in Targets : \E url \in ApiBaseUrls : RejectedCreate(t, url)

SpecTargets == Init /\ [][NextTargets]_vars

\* one search with planned reconnects, in which Result events are handled in
\* any order and at any moment relative to the reconnect, duplicates included
NextOrder ==
  \/ UserSetInstitutionA("acme")
  \/ now = 0 /\ UserStart
  \/ \E c \in ConnIds : ReconnectTimer0(c)
  \/ \E c \in ConnIds : ReconnectTimer100(c)
  \/ \E c \in ConnIds : RegisterOk(c, None)
  \/ \E c \in ConnIds : HealthOk(c)
  \/ \E c \in ConnIds : EsOpen(c)
  \/ \E c \in ConnIds : ProactiveReconnect(c)
  \/ \E i \in Items : EmitResult(i)
  \/ \E c \in ConnIds : \E i \in Items : DeliverResult(c, i)

SpecOrder == Init /\ [][NextOrder]_vars

\* the server's session alone: creation, the dispatcher and its worker pool,
\* resumes, polls, cancellation and failure
NextSession ==
  \/ CreateSession
  \/ DispatcherStart
  \/ \E i \in Items : Submit(i)
  \/ \E i \in Items : \E rel \in LookupOutcomes : WorkerDone(i, rel)
  \/ \E i \in Items : WorkerFailed(i)
  \/ \E P \in SUBSET Items : RegisterResume(P)
  \/ \E P \in SUBSET Items : \E done \in SUBSET Items : \E fails \in SUBSET done :
       \E rel \in LookupOutcomes : Poll(P, done, fails, rel)
  \/ CancelSession
  \/ SessionFailed

SpecSession == Init /\ [][NextSession]_vars

\* one search over one uninterrupted stream fed by the session's dispatcher:
\* no transport error, no timer, no cancel, no resume, no poll
NextUninterrupted ==
  \/ UserSetInstitutionA("acme")
  \/ now = 0 /\ UserStart
  \/ \E c \in ConnIds : HealthOk(c)
  \/ \E c \in ConnIds : EsOpen(c)
  \/ ConnectCreatesSession
  \/ DispatcherStart
  \/ \E i \in Items : Submit(i)
  \/ \E i \in Items : \E rel \in LookupOutcomes : WorkerDone(i, rel)
  \/ \E i \in Items : WorkerFailed(i)
  \/ \E c \in ConnIds : StreamDeliver(c)

SpecUninterrupted == Init /\ [][NextUninterrupted]_vars

\* a Lookup Worker call ends, with a result, an error or its own timeout
WorkerReturns == \E i \in Items : WorkerFailed(i) \/ \E rel \in LookupOutcomes : WorkerDone(i, rel)

\* the stream opens and delivers what is queued; the dispatcher and its pool
\* run
ServerRuns ==
  /\ WF_vars(\E c \in ConnIds : EsOpen(c))
  /\ WF_vars(\E c \in ConnIds : StreamDeliver(c))
  /\ WF_vars(DispatcherStart)
  /\ WF_vars(\E i \in Items : Submit(i))
  /\ WF_vars(WorkerReturns)

SpecUninterruptedFair == SpecUninterrupted /\ ServerRuns

(* -------------------------------- claims -------------------------------- *)
\* a results list in which no two entries carry the same item id
NoDuplicate(rs) == \A i, j \in 1..Len(rs) : i # j => rs[i] # rs[j]

\* C1: over Result events and reconnects with replay within one search, the
\* results list never holds two entries with the same item id.
C1_NoDuplicateItemId == outcome = "running" => NoDuplicate(results)

\* the server's next message on some stream is Complete
CompleteDue == \E c \in ConnIds : Streaming(c) /\ Owed(c) = {}

\* C2: when Complete is handled after a resume with the client's k < N
\* processed ids, results holds exactly N entries with N distinct item ids.
C2_ResumeExactlyOnce ==
  (CompleteDue \/ outcome = "complete")
    => Len(results) = NumItems /\ NoDuplicate(results)

\* C3: a fallback reply appends no result whose item id is already in the
\* local processed set.
C3_PollMergeSuppressesDuplicates ==
  [][fallback.inflight /\ ~fallback'.inflight
       => \A k \in (Len(results) + 1)..Len(results') :
            results'[k] \notin processedItemsRef]_vars

\* C4: every reconnect of a search registers and connects with the session id
\* of that search's first stream connection.
C4_SessionIdStable ==
  \A c \in ConnIds :
    conns[c].isReconnect /\ conns[c].phase \in {"register", "health", "live"}
      => conns[c].sid = conns[c].searchSid

\* the step is part of the handling of a ReconnectWarning by connection slot c:
\* scheduling, the two timeouts, the registration and the health check,
\* whether they succeed or fail
PlannedReconnectStep(c) ==
  /\ conns[c].isReconnect \/ conns'[c].isReconnect
  /\ conns'[c].phase # conns[c].phase
  /\ conns[c].phase \in {"none", "t0", "t100", "register", "health"}

\* C5: while a search runs, handling a ReconnectWarning sends the local
\* processed set as the registration hint and its size in the stream URL, and
\* it increments no reconnectAttempts counter, sets no error and calls no fallback.
C5_PlannedReconnectIsNoError ==
  [][\A c \in ConnIds :
       outcome = "running" /\ PlannedReconnectStep(c) =>
         /\ conns'[c].phase = "register" => conns'[c].hint = processedItemsRef
         /\ conns'[c].phase = "live" =>
              /\ conns'[c].urlProgress = Cardinality(processedItemsRef)
              /\ conns'[c].reconnectAttempts = 0
         /\ \A d \in ConnIds : conns'[d].reconnectAttempts <= conns[d].reconnectAttempts
         /\ error' = error
         /\ onFallbackBy' = NoCall
         /\ fallback' = fallback]_vars

\* C6: the client calls onFallback only with reconnectAttempts at or above
\* MAX_RECONNECT_ATTEMPTS, and increments (retries) only below it.
C6_RetryBelowMaxFallbackAtMax ==
  [][/\ onFallbackBy'.c # 0 => onFallbackBy'.att >= MAX_RECONNECT_ATTEMPTS
     /\ \A c \in ConnIds :
          conns'[c].reconnectAttempts > conns[c].reconnectAttempts
            => conns[c].reconnectAttempts < MAX_RECONNECT_ATTEMPTS]_vars

\* C7: a failed registration or a failed health check during a reconnect
\* neither sets the error nor ends the search.
C7_TransientFailureInvisible ==
  [][\A c \in ConnIds :
       /\ isSearching /\ conns[c].isReconnect
       /\ conns[c].phase \in {"register", "health"}
       /\ conns'[c].phase # conns[c].phase
       => isSearching' /\ error' = error]_vars

\* C8: once Complete is handled the search is over, every EventSource is
\* closed, every timer of every connection is cleared and no request is in flight.
C8_CompleteStopsEverything ==
  outcome = "complete" =>
    /\ ~isSearching
    /\ ~fallback.inflight
    /\ \A c \in ConnIds :
         /\ conns[c].es = "closed"
         /\ ~conns[c].connectionTimeoutId /\ conns[c].heartbeatTimeoutId = "none"
         /\ conns[c].leaked = NoLeaked
         /\ ~conns[c].reconnectTimeoutId /\ ~conns[c].activityCheckerId

\* C9: after cancelSearch no client state is mutated and no request or
\* connection is started (a pending timeout may still run out).
C9_CancelIsFinal ==
  [][outcome = "cancelled" /\ outcome' = "cancelled" =>
       /\ UNCHANGED <<results, progress, totalItems, processedItemsRef, sessionId,
                      isSearching, error>>
       /\ \A c \in ConnIds :
            \/ conns'[c].phase \in {conns[c].phase, "gone"}
            \/ conns[c].phase = "t0" /\ conns'[c].phase = "t100"
       /\ fallback'.inflight => fallback.inflight]_vars

\* C10: within one search the displayed progress never decreases.
C10_ProgressMonotone ==
  [][outcome = "running" /\ outcome' = "running" => progress' >= progress]_vars

\* the item ids in the results list
ResultIds == {results[k] : k \in 1..Len(results)}

\* C11: a search that finishes through fallback polls, each of which returned
\* at least one new result, finishes only with all N items in the results list.
C11_PollingConverges ==
  outcome = "polled" /\ ~isSearching /\ Len(results) > 0 => Items \subseteq ResultIds

\* C12: the first failed fallback poll of a search does not surface the error:
\* no step of a search in which no poll has failed yet (error is still empty)
\* sets the fallback error.
C12_SingleFailedPollRetried ==
  [][fallback.inflight /\ isSearching /\ error = "" => error' # "fallback_failed"]_vars

\* no EventSource is open, no timer of any connection is pending and no
\* startDeepSearch invocation or fallback request is under way
AllQuiet ==
  /\ ~fallback.inflight
  /\ \A c \in ConnIds :
       /\ conns[c].phase \in {"none", "gone"}
       /\ conns[c].es = "closed"
       /\ ~conns[c].connectionTimeoutId /\ conns[c].heartbeatTimeoutId = "none"
       /\ conns[c].leaked = NoLeaked
       /\ ~conns[c].reconnectTimeoutId /\ ~conns[c].activityCheckerId

\* C13: once a server Error event is handled the error is shown, the search is
\* over, the connection is closed with its timers cleared, and nothing is left
\* that could connect, reconnect or fall back.
C13_FatalErrorTerminates ==
  error = "server_error" => ~isSearching /\ AllQuiet

\* C14: after a failed fallback request has shown its error the search is over,
\* the fallback flag is clear and the connection and all its timers are cleaned up.
C14_FallbackExhaustionRecoverable ==
  error = "fallback_failed" => ~isSearching /\ ~isFallbackInProgressRef /\ AllQuiet

\* C15: while a search runs, every id recorded in the local processed set stays in it.
C15_ProcessedOnlyGrows ==
  [][outcome = "running" /\ outcome' = "running"
       => processedItemsRef \subseteq processedItemsRef']_vars

\* C16: once the total is known, neither the displayed progress nor the size
\* of the local processed set exceeds it.
C16_CountWithinTotal ==
  outcome = "running" /\ totalItems > 0
    => progress <= totalItems /\ Cardinality(processedItemsRef) <= totalItems

\* every item of the session has its terminal result
AllLanded == session.status # "NotFound" /\ session.completed = Items

\* what holds of the Complete event at every moment of an uninterrupted stream
CompleteEmission ==
  /\ session.completes <= 1
  /\ session.completes = 1 <=> AllLanded
  /\ \A k \in 1..Len(session.queue) :
       session.queue[k] = CompleteEvent => k = Len(session.queue)
  /\ outcome = "complete"
       => /\ session.completes = 1 /\ session.queue = <<>>
          /\ Items \subseteq ResultIds
          /\ Len(results) = NumItems
          /\ \A c \in ConnIds : ~Listening(c)

\* C17: on an uninterrupted stream a Complete event is queued if and only if
\* every item has its terminal result, never twice and behind every Result
\* event; the client handles it only with one Result per item in its list,
\* after which no stream is left; and once every item has its result, Complete
\* is handled.
C17_CompleteOnceAfterAllResults ==
  /\ []CompleteEmission
  /\ AllLanded ~> outcome = "complete"

\* Complete was handled after the Results of a session in which one item's
\* lookup failed
C17_Witness ==
  /\ outcome = "complete" /\ Len(results) = NumItems /\ ~isSearching
  /\ session.completes = 1 /\ session.status = "Completed"
  /\ \E i \in Items : session.results[i] = "Unknown"

StatusRank(st) ==
  CASE st = "NotFound" -> 0 [] st = "Pending" -> 1 [] st = "Running" -> 2 [] OTHER -> 3

C19_ItemFailureNeverFailsBatch ==
  /\ [][/\ \A i \in Items :
             i \notin session.completed /\ session'.results[i] = "Unknown"
               => /\ session'.status # "Failed"
                  /\ i \in session'.completed
                  /\ \A j \in session.inflight \ {i} :
                       /\ j \in session'.inflight
                       /\ session'.results[j] = session.results[j]
        /\ \A i \in session.inflight :
             session.status = "Running" /\ i \notin session'.inflight
               => session'.results[i] \in RelationshipTypes
        /\ session'.status = "Completed"
             => \A i \in Items : session'.results[i] \in RelationshipTypes]_vars
  /\ (\E i \in Items : session.results[i] = "Unknown")
       ~> (/\ session.status = "Completed"
           /\ \A i \in Items : session.results[i] \in RelationshipTypes)

\* one lookup has failed while another item is still in the pool of the
\* running session
C19_Witness ==
  /\ session.status = "Running"
  /\ \E i, j \in Items :
       /\ session.results[i] = "Unknown" /\ i \in session.completed
       /\ j \in session.inflight /\ j \notin session.completed

\* C20: at every moment at most one connection of a search has an EventSource
\* that is not closed with its handlers attached, and that connection is the
\* one the hook holds in eventSourceRef.
C20_SingleStreamConsumer ==
  \A c, d \in ConnIds :
    /\ Listening(c) /\ Listening(d) /\ conns[c].searchSid = conns[d].searchSid => c = d
    /\ Listening(c) => eventSourceRef = c

\* a timer of connection c emits the reconnect_warning that schedules a new
\* stream: its reconnect timer is consumed while a startDeepSearch(true) is set up
OpensNewStream(c) ==
  /\ conns[c].reconnectTimeoutId /\ ~conns'[c].reconnectTimeoutId
  /\ \E n \in ConnIds : conns[n].phase = "none" /\ conns'[n].phase = "t0"

\* C21: once a connection has called onFallback, none of its remaining timers
\* calls onFallback again or opens a new stream connection, with the fallback
\* request in flight or already answered.
C21_FallbackModeNeverLeft ==
  [][\A c \in fellBack : onFallbackBy'.c # c /\ ~OpensNewStream(c)]_vars

\* C22: an open stream that has fallen silent for good is eventually closed by
\* the client (through a timer that reconnects or falls back), whether the
\* silence began right after onopen or after heartbeats and results.
C22_SilentFailureDetected ==
  \A c \in ConnIds : (c \in silent /\ Streaming(c)) ~> (conns[c].es = "closed")

\* a stream that fell silent after it had delivered a result has been closed
\* by a timer that called onFallback
C22_Witness ==
  /\ silent # {}
  /\ \A c \in silent : conns[c].es = "closed"
  /\ Len(results) > 0
  /\ isFallbackInProgressRef

\* a new (non-reconnect) startDeepSearch is accepted by this step
NewSearchAccepted == now' = now + 1

\* C23: when a new search is accepted after an earlier one, the hook's results,
\* progress, total, processed set, reconnect count and fallback flag are those
\* of a fresh hook, no fallback request of the earlier search is in flight, and
\* the only connection slot in use is the one of the new search.
C23_NothingLeaksIntoNextSearch ==
  [][NewSearchAccepted /\ now > 0
       => /\ results' = <<>> /\ progress' = 0 /\ totalItems' = 0
          /\ processedItemsRef' = {} /\ reconnectCountRef' = 0
          /\ ~isFallbackInProgressRef' /\ ~fallback'.inflight
          /\ \A c \in ConnIds :
               conns'[c].phase \in {"none", "gone"} \/ conns[c].phase = "none"]_vars

InFlightIds == {i \in Items : inFlight[i] > 0}

\* C24: handling a Result event moves its id from the events in flight into
\* results and processed and touches no other id, so once every event is
\* handled the ids in results and in processed are the ids that were sent,
\* whatever the order and whichever side of a reconnect each event fell on.
C24_ResultOrderIndependent ==
  [][/\ processedItemsRef' = ResultIds'
     /\ results' # results
          => ResultIds' \cup InFlightIds' = ResultIds \cup InFlightIds]_vars

\* every event sent has been handled, some twice, on a connection opened by a
\* reconnect, and both items are in results
C24_Witness ==
  /\ InFlightIds = {}
  /\ Len(results) > NumItems
  /\ ResultIds = Items
  /\ \E c \in ConnIds : conns[c].isReconnect /\ conns[c].es = "open"

\* C25: the fallback-in-progress flag is true only while a fallback request is
\* in flight: every reply, the empty one included, ends in onSuccess or
\* onError, which clear it.
C25_FallbackBookkeepingEnds == isFallbackInProgressRef => fallback.inflight

\* C26: the reconnectAttempts of every connection stays between 0 and
\* MAX_RECONNECT_ATTEMPTS + 2, and a step that takes it above
\* MAX_RECONNECT_ATTEMPTS is an onerror event within 5 s of the last activity.
C26_ReconnectAttemptsBounded ==
  [][\A c \in ConnIds :
       /\ conns'[c].reconnectAttempts \in
            0..(MAX_RECONNECT_ATTEMPTS + RecentActivityBonus)
       /\ conns'[c].reconnectAttempts > MAX_RECONNECT_ATTEMPTS
          /\ conns'[c].reconnectAttempts # conns[c].reconnectAttempts
            => \E retry \in BOOLEAN : EsError(c, TRUE, retry)]_vars

C26_Witness ==
  \E c \in ConnIds :
    conns[c].reconnectAttempts = MAX_RECONNECT_ATTEMPTS + RecentActivityBonus

\* C27: the step in which the proactive-reconnect timer of a connection fires
\* leaves that connection closed, without handlers and without any timer, and
\* schedules exactly one startDeepSearch(true); no other invocation is started
\* or advanced by the two reconnect_warning messages.
C27_OneReplacementPerExpiry ==
  [][\A c \in ConnIds :
       Live(c) /\ OpensNewStream(c) =>
         /\ conns'[c].es = "closed" /\ ~conns'[c].handlers
         /\ ~conns'[c].connectionTimeoutId /\ conns'[c].heartbeatTimeoutId = "none"
         /\ ~conns'[c].reconnectTimeoutId /\ ~conns'[c].activityCheckerId
         /\ Cardinality({n \in ConnIds : conns[n].phase = "none"
                                         /\ conns'[n].phase = "t0"}) = 1
         /\ \A n \in ConnIds :
              conns'[n].phase \notin {"none", "t0", "gone"}
                => conns'[n].phase = conns[n].phase
         /\ reconnectCountRef' = reconnectCountRef + 1]_vars

\* the replacement requested by a timer expiry is streaming and the connection
\* it replaces is gone
C27_Witness ==
  \E c, n \in ConnIds :
    /\ conns[c].phase = "gone"
    /\ conns[n].isReconnect /\ Streaming(n)
    /\ reconnectCountRef = 1
    /\ Cardinality({d \in ConnIds : conns[d].phase # "none"}) = 2

\* C28: when the register_session POST of a reconnect is answered, by a failure
\* as by a success, the invocation goes on to the health check and the stream
\* for the same target, whose URL carries the processed count, and results,
\* progress, total, processed, error and isSearching are left as they were.
C28_FailedRegistrationKeepsReconnect ==
  [][\A c \in ConnIds :
       /\ conns[c].phase = "register" /\ conns'[c].phase # "register"
            => /\ conns'[c].phase = "health"
               /\ conns'[c].target = conns[c].target
               /\ UNCHANGED <<results, progress, totalItems, processedItemsRef,
                              error, isSearching>>
       /\ conns[c].phase = "health" /\ conns[c].isReconnect /\ conns'[c].phase = "live"
            => /\ conns'[c].target = conns[c].target
               /\ conns'[c].urlProgress = Cardinality(processedItemsRef)
               /\ conns'[c].es = "connecting"]_vars

\* a reconnect whose registration failed (the server holds no processed id for
\* it) is streaming, with the processed count in its URL
C28_Witness ==
  \E c \in ConnIds :
    /\ conns[c].isReconnect /\ Streaming(c)
    /\ conns[c].hint = {} /\ conns[c].urlProgress > 0
    /\ conns[c].target = "acme"

\* C29: a startDeepSearch rejected for lack of a target sets the error and
\* nothing else: results, progress, total, processed, session id and
\* isSearching stay, no request is sent and no connection, EventSource or timer
\* is created; a createSSEConnection call with an empty target or API base
\* URL throws with no EventSource, handler or timer created and nothing else
\* changed.
C29_NoTargetRejectedCleanly ==
  [][/\ error' = "no_target" /\ error # "no_target"
          => /\ UNCHANGED <<results, progress, totalItems, processedItemsRef, sessionId,
                            isSearching, fallback, eventSourceRef, cleanupFnRef, now>>
             /\ \A c \in ConnIds :
                  conns'[c] = conns[c] \/ conns'[c].phase \in {"none", "gone"}
     /\ \A c \in ConnIds : conns'[c].phase = "live" => ~IsBlank(conns'[c].target)
     /\ \A t \in Targets : \A url \in ApiBaseUrls :
          RejectedCreate(t, url)
            => /\ UNCHANGED <<results, progress, totalItems, processedItemsRef,
                              sessionId, isSearching, error, fallback, eventSourceRef,
                              cleanupFnRef, now, isFallbackInProgressRef>>
               /\ \A c \in ConnIds :
                    \/ conns'[c] = conns[c]
                    \/ /\ conns[c].phase = "none" /\ conns'[c].phase = "thrown"
                       /\ conns'[c].es = "closed" /\ ~conns'[c].handlers
                       /\ ~conns'[c].connectionTimeoutId
                       /\ conns'[c].heartbeatTimeoutId = "none"
                       /\ ~conns'[c].reconnectTimeoutId
                       /\ ~conns'[c].activityCheckerId]_vars

\* a start with a whitespace-only target was rejected before any search ran,
\* and a createSSEConnection call has thrown
C29_Witness ==
  /\ error = "no_target" /\ IsBlank(institutionA) /\ institutionA # ""
  /\ ~isSearching /\ outcome = "idle" /\ sessionId = InitialSessionId
  /\ \A c \in ConnIds : conns[c].phase \in {"none", "thrown"}
  /\ \E c \in ConnIds : conns[c].phase = "thrown"

\* the message types the claim calls informational; Msg carries no reconnect flag
InformationalTypes ==
  {"connect", "connection_warning", "raw", "batch_complete", "reconnect_warning"}

\* C30: handling an informational message leaves results, progress, total,
\* processed, session id, isSearching and error unchanged, keeps the
\* connection open, and starts neither a reconnect nor a fallback.
C30_InformationalMessagesInert ==
  [][\A c \in ConnIds : \A type \in InformationalTypes :
       ServerInfo(c, type)
         => /\ UNCHANGED <<results, progress, totalItems, processedItemsRef, sessionId,
                           isSearching, error, fallback, isFallbackInProgressRef,
                           eventSourceRef, cleanupFnRef, reconnectCountRef>>
            /\ conns'[c].es = "open" /\ conns'[c].handlers
            /\ \A n \in ConnIds : conns'[n].phase = conns[n].phase
            /\ onFallbackBy' = NoCall]_vars

\* an open stream whose first-heartbeat timer was cleared by a message that
\* was neither a Result nor a Heartbeat nor an Init
C30_Witness ==
  \E c \in ConnIds :
    /\ Streaming(c) /\ conns[c].heartbeatTimeoutId = "none"
    /\ results = <<>> /\ progress = 0 /\ totalItems = 0
    /\ isSearching /\ error = ""

R1 == \E c \in ConnIds : conns[c].leaked["first"] = 2
R2 == progress = None /\ totalItems = None /\ Len(results) > 0
R3 == error = "sse_error" /\ isSearching

====
